---------------------------- MODULE Spec2Model ----------------------------
(***************************************************************************)
(* RC5 (karim-agha/rc5): the word arithmetic of src/word.rs, the key       *)
(* expansion and the block cipher of src/cipher.rs and the keyed context   *)
(* and one-shot functions of src/lib.rs.                                   *)
(*                                                                         *)
(* A word of u bytes (u = size_of::<W>(), one of 2, 4, 8, 16) is kept as   *)
(* its u/2 base-65536 digits, least significant digit first: TLC's         *)
(* integers are 32 bits wide, so a u32, u64 or u128 value cannot be one    *)
(* TLC integer.  Every operation below is the operation of the Rust        *)
(* unsigned integer on that digit expansion, so the width of the word is   *)
(* exact and wrapping is the carry out of the last digit being dropped.    *)
(***************************************************************************)
EXTENDS Integers, Sequences, FiniteSets, TLC

VARIABLES
  size_of_W,   \* size_of::<W>(): the byte width of the word type W
  ctx,         \* the Context<W> the caller holds, or NoContext
  made,        \* history: the arguments of the Context::new that made ctx and
               \* the subkeys key expansion returned to it
  call         \* the call the caller has just made: its operation, its
               \* arguments, its result and, for Context::new, the bytes of
               \* the key buffer as the call left them; NoCall between calls

vars == <<size_of_W, ctx, made, call>>

-----------------------------------------------------------------------------
(* Results: Result<T, Error> of src/error.rs, and a panic                  *)

Ok(v) == [tag |-> "Ok", val |-> v, err |-> "none"]
Err(e) == [tag |-> "Err", val |-> <<>>, err |-> e]
Panic == [tag |-> "Panic", val |-> <<>>, err |-> "none"]

\* The variants of enum Error.
Error ==
  {"InvalidKeySize", "InvalidWordSize", "InvalidBytes", "InvalidInputLength",
   "InvalidRoundsCount"}

-----------------------------------------------------------------------------
(* Word arithmetic (src/word.rs and the num traits it requires)            *)

Base == 2 ^ 16

\* The supported widths: impl_word!(u16 ...), (u32 ...), (u64 ...), (u128 ...).
WordSizes == {2, 4, 8, 16}

\* Word::BITS = size_of::<Self>() * 8.
BITS(u) == u * 8

\* Number of base-65536 digits of a word of u bytes.
Digits(u) == u \div 2

Pow2(n) == IF n = 0 THEN 1 ELSE 2 ^ n

\* TRUE, for every value v.  TLC evaluates an operator's argument and a LET
\* definition at its first use; a loop below tests Evaluated(half) on the
\* result of its first half so that the first half is evaluated before the
\* second half starts, as the source's loop does, and not inside it.
Evaluated(v) == DOMAIN v = DOMAIN v

\* A word given digit by digit, as a sequence value.  TLC keeps a function
\* constructor [d \in 1..n |-> e] unevaluated until it is applied;
\* concatenating it with the empty sequence evaluates it once.
Word(f) == f \o <<>>

\* W::zero().
zero(u) == Word([d \in 1..Digits(u) |-> 0])

\* Word::Q: Odd((phi - 1) 2^w), the first argument of impl_word!.
Q(u) ==
  CASE u = 2  -> <<40503>>                                \* 0x9E37
    [] u = 4  -> <<31161, 40503>>                         \* 0x9E3779B9
    [] u = 8  -> <<31765, 32586, 31161, 40503>>           \* 0x9E3779B97F4A7C15
    [] u = 16 -> <<51253, 23789, 49248, 62364,
                   31765, 32586, 31161, 40503>>
                 \* 0x9E3779B97F4A7C15F39CC0605CEDC835

\* A slip in the order of the arguments of impl_word!: P takes Q's value.
P_swapped(u) == Q(u)

\* Word::P: Odd((e - 2) 2^w), the second argument of impl_word!.
P(u) ==
  CASE u = 2  -> <<47073>>                                \* 0xB7E1
    [] u = 4  -> <<20835, 47073>>                         \* 0xB7E15163
    [] u = 8  -> <<10859, 35565, 20834, 47073>>           \* 0xB7E151628AED2A6B
    [] u = 16 -> <<62407, 40180, 22656, 49009,
                   10858, 35565, 20834, 47073>>
                 \* 0xB7E151628AED2A6ABF7158809CF4F3C7

\* Digits d.. of a + b given the carry into digit d; the carry out of the
\* last digit is dropped.
RECURSIVE AddFrom(_, _, _, _)
AddFrom(a, b, d, carry) ==
  IF d > Len(a) THEN <<>>
  ELSE LET sum == a[d] + b[d] + carry
       IN  <<sum % Base>> \o AddFrom(a, b, d + 1, sum \div Base)

\* WrappingAdd::wrapping_add.
wrapping_add(a, b) == AddFrom(a, b, 1, 0)

\* Digits d.. of a - b given the borrow into digit d; the borrow out of the
\* last digit is dropped.
RECURSIVE SubFrom(_, _, _, _)
SubFrom(a, b, d, borrow) ==
  IF d > Len(a) THEN <<>>
  ELSE LET diff == a[d] - b[d] - borrow
       IN  <<(diff + Base) % Base>>
             \o SubFrom(a, b, d + 1, IF diff < 0 THEN 1 ELSE 0)

\* WrappingSub::wrapping_sub.
wrapping_sub(a, b) == SubFrom(a, b, 1, 0)

\* Bitwise exclusive or of two naturals below 2^n.
RECURSIVE XorBits(_, _, _)
XorBits(x, y, n) ==
  IF n = 0 THEN 0
  ELSE ((x + y) % 2) + 2 * XorBits(x \div 2, y \div 2, n - 1)

\* BitXor::bitxor.
bitxor(a, b) == Word([d \in 1..Len(a) |-> XorBits(a[d], b[d], 16)])

\* PrimInt::rotate_left(n): rotation by n mod BITS towards the most
\* significant bit.  Digit d of the result takes the low 16-k bits of digit
\* d-s (shifted up by k) and the high k bits of digit d-s-1, where
\* n mod BITS = 16*s + k and digit indices wrap.
rotate_left(a, n) ==
  LET m == Len(a)
      r == n % (16 * m)
      s == r \div 16
      k == r % 16
      dig(i) == a[((i - 1 + 2 * m) % m) + 1]
      lo == Pow2(16 - k)
      hi == Pow2(k)
  IN  Word([d \in 1..m |->
        (dig(d - s) % lo) * hi + (dig(d - s - 1) \div lo)])

\* Copied from rotate_left and not turned round.
rotate_right_unturned(a, n) == rotate_left(a, n)

\* PrimInt::rotate_right(n): rotation by n mod BITS towards the least
\* significant bit.
rotate_right(a, n) ==
  LET m == Len(a)
      r == n % (16 * m)
      s == r \div 16
      k == r % 16
      dig(i) == a[((i - 1 + 2 * m) % m) + 1]
      lo == Pow2(k)
      hi == Pow2(16 - k)
  IN  Word([d \in 1..m |->
        (dig(d + s) \div lo) + (dig(d + s + 1) % lo) * hi])

\* x.to_u128().ok_or(Error::InvalidWordSize)? % W::BITS as u128: to_u128 is
\* Some for every unsigned primitive up to u128, and BITS (16, 32, 64 or 128)
\* divides 65536, so the value modulo BITS is the lowest digit modulo BITS.
rotation_of(x) == x[1] % (16 * Len(x))

\* W::from(key[i]): the byte as a word.
from_u8(byte, u) == Word([d \in 1..Digits(u) |-> IF d = 1 THEN byte ELSE 0])

\* Word::from_le_bytes: InvalidBytes unless the slice holds exactly
\* size_of::<Self>() bytes; then the little-endian value of the bytes.
from_le_bytes(bytes, u) ==
  IF Len(bytes) # u THEN Err("InvalidBytes")
  ELSE Ok(Word([d \in 1..Digits(u) |->
             bytes[2 * d - 1] + 256 * bytes[2 * d]]))

\* The bytes of the value, most significant first.
to_be_bytes(w) ==
  Word([i \in 1..(2 * Len(w)) |->
    IF i % 2 = 1 THEN w[Len(w) - ((i - 1) \div 2)] \div 256
    ELSE w[Len(w) - ((i - 1) \div 2)] % 256])

\* Word::to_le_bytes: the bytes of the value, least significant first.
to_le_bytes(w) ==
  Word([i \in 1..(2 * Len(w)) |->
    IF i % 2 = 1 THEN w[(i + 1) \div 2] % 256 ELSE w[i \div 2] \div 256])

-----------------------------------------------------------------------------
(* Block cipher (src/cipher.rs)                                            *)

\* One round of the encryption loop, i in 1..=num_rounds.  S is 1-based:
\* expanded_key[n] is S[n + 1].
EncryptRound(S, block, i) ==
  LET a == wrapping_add(
             rotate_left(bitxor(block[1], block[2]), rotation_of(block[2])),
             S[2 * i + 1])
      b == wrapping_add(
             rotate_left(bitxor(block[2], a), rotation_of(a)),
             S[2 * i + 2])
  IN  <<a, b>>

\* for i in lo..=hi, in ascending order.  The range is halved rather than
\* peeled one round at a time so that the evaluation depth is logarithmic in
\* the number of rounds.
RECURSIVE EncryptRounds(_, _, _, _)
EncryptRounds(S, block, lo, hi) ==
  IF lo > hi THEN block
  ELSE IF lo = hi THEN EncryptRound(S, block, lo)
  ELSE LET mid == (lo + hi) \div 2
           half == EncryptRounds(S, block, lo, mid)
       IN  IF Evaluated(half) THEN EncryptRounds(S, half, mid + 1, hi)
           ELSE half

\* encrypt_block.  (expanded_key.len() / 2) - 1 is a usize subtraction: with
\* fewer than two subkeys it overflows, which panics in a build with overflow
\* checks; without them it wraps to usize::MAX and the index expanded_key[0]
\* (length 0) or expanded_key[1] (length 1) is out of bounds, which panics.
encrypt_block(expanded_key, block) ==
  IF Len(expanded_key) \div 2 = 0 THEN Panic
  ELSE
    LET num_rounds == (Len(expanded_key) \div 2) - 1
        b0 == <<wrapping_add(block[1], expanded_key[1]),
                wrapping_add(block[2], expanded_key[2])>>
    IN  Ok(EncryptRounds(expanded_key, b0, 1, num_rounds))

\* The second rotation taken from the B the round started with instead of
\* the B it has just computed.
DecryptRound_stale(S, block, i) ==
  LET b == bitxor(
             rotate_right(wrapping_sub(block[2], S[2 * i + 2]),
                          rotation_of(block[1])),
             block[1])
      a == bitxor(
             rotate_right(wrapping_sub(block[1], S[2 * i + 1]),
                          rotation_of(block[2])),
             b)
  IN  <<a, b>>

\* One round of the decryption loop.
DecryptRound(S, block, i) ==
  LET b == bitxor(
             rotate_right(wrapping_sub(block[2], S[2 * i + 2]),
                          rotation_of(block[1])),
             block[1])
      a == bitxor(
             rotate_right(wrapping_sub(block[1], S[2 * i + 1]),
                          rotation_of(b)),
             b)
  IN  <<a, b>>

\* for i in (lo..=hi).rev(), in descending order.
RECURSIVE DecryptRounds(_, _, _, _)
DecryptRounds(S, block, lo, hi) ==
  IF lo > hi THEN block
  ELSE IF lo = hi THEN DecryptRound(S, block, lo)
  ELSE LET mid == (lo + hi) \div 2
           half == DecryptRounds(S, block, mid + 1, hi)
       IN  IF Evaluated(half) THEN DecryptRounds(S, half, lo, mid)
           ELSE half

\* decrypt_block: the same subtraction and indices as encrypt_block.
decrypt_block(expanded_key, block) ==
  IF Len(expanded_key) \div 2 = 0 THEN Panic
  ELSE
    LET num_rounds == (Len(expanded_key) \div 2) - 1
        b1 == DecryptRounds(expanded_key, block, 1, num_rounds)
    IN  Ok(<<wrapping_sub(b1[1], expanded_key[1]),
             wrapping_sub(b1[2], expanded_key[2])>>)

-----------------------------------------------------------------------------
(* Key expansion (src/cipher.rs)                                           *)

MAX_ROUNDS == 256
MAX_KEY_SIZE == 256

Max(a, b) == IF a > b THEN a ELSE b

\* num::integer::div_ceil on usize.
div_ceil(a, b) == (a + b - 1) \div b

\* The byte added before the rotation instead of after it.
KeyToWordsStep_add_first(words, key, i, u) ==
  LET word_index == i \div u
      word == from_u8(key[i + 1], u)
  IN  [words EXCEPT ![word_index + 1] =
        rotate_left(wrapping_add(words[word_index + 1], word), 8)]

\* The body of the loop of key_to_words for index i (0-based): key[i] is
\* key[i + 1] here and words[word_index] is words[word_index + 1].
KeyToWordsStep(words, key, i, u) ==
  LET word_index == i \div u
      word == from_u8(key[i + 1], u)
  IN  [words EXCEPT ![word_index + 1] =
        wrapping_add(rotate_left(words[word_index + 1], 8), word)]

\* for i in (lo..=hi).rev().
RECURSIVE KeyToWordsLoop(_, _, _, _, _)
KeyToWordsLoop(words, key, lo, hi, u) ==
  IF lo > hi THEN words
  ELSE IF lo = hi THEN KeyToWordsStep(words, key, lo, u)
  ELSE LET mid == (lo + hi) \div 2
           half == KeyToWordsLoop(words, key, mid + 1, hi, u)
       IN  IF Evaluated(half) THEN KeyToWordsLoop(half, key, lo, mid, u)
           ELSE half

\* key_to_words.
key_to_words(key, u) ==
  LET words_len == div_ceil(Max(Len(key), 1), u)
      words == Word([k \in 1..words_len |-> zero(u)])
  IN  KeyToWordsLoop(words, key, 0, Len(key) - 1, u)

\* for i in lo..=hi: subkeys[i] = subkeys[i - 1].wrapping_add(&W::Q).
RECURSIVE InitializeLoop(_, _, _, _)
InitializeLoop(subkeys, lo, hi, u) ==
  IF lo > hi THEN subkeys
  ELSE IF lo = hi
    THEN [subkeys EXCEPT ![lo + 1] = wrapping_add(subkeys[lo], Q(u))]
  ELSE LET mid == (lo + hi) \div 2
           half == InitializeLoop(subkeys, lo, mid, u)
       IN  IF Evaluated(half) THEN InitializeLoop(half, mid + 1, hi, u)
           ELSE half

\* One subkey short: 2 * rounds + 1.
initialize_subkeys_short(rounds, u) ==
  LET subkey_count == 2 * rounds + 1
      subkeys == Word([k \in 1..subkey_count |->
                        IF k = 1 THEN P(u) ELSE zero(u)])
  IN  InitializeLoop(subkeys, 1, subkey_count - 1, u)

\* initialize_subkeys.
initialize_subkeys(rounds, u) ==
  LET subkey_count == 2 * (rounds + 1)
      subkeys == Word([k \in 1..subkey_count |->
                        IF k = 1 THEN P(u) ELSE zero(u)])
  IN  InitializeLoop(subkeys, 1, subkey_count - 1, u)

\* One iteration of the key scheduling loop of expand_key on its locals
\* m = [subkeys, words, i, j, a, b].
MixStep(m) ==
  LET s1 == rotate_left(
              wrapping_add(wrapping_add(m.subkeys[m.i + 1], m.a), m.b), 3)
      a == s1
      rotation == rotation_of(wrapping_add(a, m.b))
      w1 == rotate_left(
              wrapping_add(wrapping_add(m.words[m.j + 1], a), m.b), rotation)
  IN  [subkeys |-> [m.subkeys EXCEPT ![m.i + 1] = s1],
       words   |-> [m.words EXCEPT ![m.j + 1] = w1],
       i       |-> (m.i + 1) % Len(m.subkeys),
       j       |-> (m.j + 1) % Len(m.words),
       a       |-> a,
       b       |-> w1]

\* for _ in 0..iters.
RECURSIVE MixLoop(_, _)
MixLoop(m, iters) ==
  IF iters = 0 THEN m
  ELSE IF iters = 1 THEN MixStep(m)
  ELSE LET half == MixLoop(m, iters \div 2)
       IN  IF Evaluated(half) THEN MixLoop(half, iters - (iters \div 2))
           ELSE half

\* The limits compared with >= : a key of 256 bytes and 256 rounds refused.
expand_key_strict(key, rounds, u) ==
  IF Len(key) >= MAX_KEY_SIZE THEN Err("InvalidKeySize")
  ELSE IF rounds >= MAX_ROUNDS THEN Err("InvalidRoundsCount")
  ELSE
    LET words == key_to_words(key, u)
        subkeys == initialize_subkeys(rounds, u)
        iters == Max(Len(subkeys), Len(words)) * 3
        m0 == [subkeys |-> subkeys, words |-> words, i |-> 0, j |-> 0,
               a |-> zero(u), b |-> zero(u)]
    IN  Ok(MixLoop(m0, iters).subkeys)

\* expand_key.
expand_key(key, rounds, u) ==
  IF Len(key) > MAX_KEY_SIZE THEN Err("InvalidKeySize")
  ELSE IF rounds > MAX_ROUNDS THEN Err("InvalidRoundsCount")
  ELSE
    LET words == key_to_words(key, u)
        subkeys == initialize_subkeys(rounds, u)
        iters == Max(Len(subkeys), Len(words)) * 3
        m0 == [subkeys |-> subkeys, words |-> words, i |-> 0, j |-> 0,
               a |-> zero(u), b |-> zero(u)]
    IN  Ok(MixLoop(m0, iters).subkeys)

-----------------------------------------------------------------------------
(* Keyed context and one-shot functions (src/lib.rs)                       *)

\* Zeroize for Vec<u8>: every byte of the buffer is overwritten with zero.
zeroize(bytes) == Word([i \in 1..Len(bytes) |-> 0])

\* struct Context<W>.
Context(expanded_key, rounds) ==
  [expanded_key |-> expanded_key, rounds |-> rounds]

\* Context::new(key, rounds): the result and the key buffer as the call
\* leaves it.  The ? on expand_key returns before key.zeroize() is reached.
Context_new(key, rounds, u) ==
  LET expanded_key == expand_key(key, rounds, u)
  IN  IF expanded_key.tag # "Ok"
        THEN [out |-> expanded_key, key |-> key]
        ELSE [out |-> Ok(Context(expanded_key.val, rounds)),
              key |-> zeroize(key)]

\* plaintext.chunks(block_size): chunk k (0-based); the last may be short.
chunk(bytes, k, block_size) ==
  SubSeq(bytes, k * block_size + 1,
         IF (k + 1) * block_size < Len(bytes) THEN (k + 1) * block_size
         ELSE Len(bytes))

\* &block[from..to] (0-based, to exclusive): a range that ends past the slice
\* panics.
slice(bytes, from, to) ==
  IF to > Len(bytes) THEN Panic ELSE Ok(SubSeq(bytes, from + 1, to))

\* W::from_le_bytes(&block[from..to])?.
word_at(block, from, to, u) ==
  LET bytes == slice(block, from, to)
  IN  IF bytes.tag # "Ok" THEN bytes ELSE from_le_bytes(bytes.val, u)

\* The loop of Context::encrypt from chunk k on; ciphertext is the output so
\* far.  Each ? returns the error (or lets the panic unwind) at once.
RECURSIVE EncryptChunks(_, _, _, _, _)
EncryptChunks(self, plaintext, k, ciphertext, u) ==
  LET word_bytes == u
      block_size == 2 * word_bytes
  IN  IF k * block_size >= Len(plaintext) THEN Ok(ciphertext)
      ELSE
        LET block == chunk(plaintext, k, block_size)
            w0 == word_at(block, 0, word_bytes, u)
            w1 == word_at(block, word_bytes, block_size, u)
            enc == encrypt_block(self.expanded_key, <<w0.val, w1.val>>)
        IN  IF w0.tag # "Ok" THEN w0
            ELSE IF w1.tag # "Ok" THEN w1
            ELSE IF enc.tag # "Ok" THEN enc
            ELSE EncryptChunks(self, plaintext, k + 1,
                   ciphertext \o to_le_bytes(enc.val[1])
                              \o to_le_bytes(enc.val[2]), u)

\* The length checked against the word size instead of the block size.
Context_encrypt_word_multiple(self, plaintext, u) ==
  IF Len(plaintext) % u # 0 THEN Err("InvalidInputLength")
  ELSE EncryptChunks(self, plaintext, 0, <<>>, u)

\* Context::encrypt(&self, plaintext).
Context_encrypt(self, plaintext, u) ==
  LET block_size == 2 * u
  IN  IF Len(plaintext) % block_size # 0 THEN Err("InvalidInputLength")
      ELSE EncryptChunks(self, plaintext, 0, <<>>, u)

\* The loop of Context::decrypt from chunk k on.
RECURSIVE DecryptChunks(_, _, _, _, _)
DecryptChunks(self, ciphertext, k, plaintext, u) ==
  LET word_bytes == u
      block_size == 2 * word_bytes
  IN  IF k * block_size >= Len(ciphertext) THEN Ok(plaintext)
      ELSE
        LET block == chunk(ciphertext, k, block_size)
            w0 == word_at(block, 0, word_bytes, u)
            w1 == word_at(block, word_bytes, block_size, u)
            dec == decrypt_block(self.expanded_key, <<w0.val, w1.val>>)
        IN  IF w0.tag # "Ok" THEN w0
            ELSE IF w1.tag # "Ok" THEN w1
            ELSE IF dec.tag # "Ok" THEN dec
            ELSE DecryptChunks(self, ciphertext, k + 1,
                   plaintext \o to_le_bytes(dec.val[1])
                             \o to_le_bytes(dec.val[2]), u)

\* Context::decrypt(&self, ciphertext).
Context_decrypt(self, ciphertext, u) ==
  LET block_size == 2 * u
  IN  IF Len(ciphertext) % block_size # 0 THEN Err("InvalidInputLength")
      ELSE DecryptChunks(self, ciphertext, 0, <<>>, u)

\* encrypt::<W>(key, plaintext, rounds):
\* Context::<W>::new(key.to_vec(), rounds)?.encrypt(plaintext).
encrypt(key, plaintext, rounds, u) ==
  LET new == Context_new(key, rounds, u)
  IN  IF new.out.tag # "Ok" THEN new.out
      ELSE Context_encrypt(new.out.val, plaintext, u)

\* decrypt::<W>(key, ciphertext, rounds):
\* Context::<W>::new(key.to_vec(), rounds)?.decrypt(ciphertext).
decrypt(key, ciphertext, rounds, u) ==
  LET new == Context_new(key, rounds, u)
  IN  IF new.out.tag # "Ok" THEN new.out
      ELSE Context_decrypt(new.out.val, ciphertext, u)

\* The preset of encrypt_default and decrypt_default: u32 words, 12 rounds.
DefaultWordSize == 4
DefaultRounds == 12

\* encrypt_default(key, plaintext) = encrypt::<u32>(&key, plaintext, 12).
encrypt_default(key, plaintext) ==
  encrypt(key, plaintext, DefaultRounds, DefaultWordSize)

\* decrypt_default(key, ciphertext) = decrypt::<u32>(&key, ciphertext, 12).
decrypt_default(key, ciphertext) ==
  decrypt(key, ciphertext, DefaultRounds, DefaultWordSize)

-----------------------------------------------------------------------------
(* The inputs the calls are made with                                      *)

MaxKeyLen == 4      \* short keys have 0..MaxKeyLen bytes
MaxRounds == 2      \* small round counts are 0..MaxRounds
MaxBlocks == 2      \* buffers hold up to MaxBlocks blocks (and a few bytes)
MaxSubkeys == 4     \* hand-made subkey arrays have 0..MaxSubkeys words

\* Two byte patterns: bytes that differ from one index to the next and are
\* never zero, and all bytes 0xFF.
PatternByte(i, p) == IF p = 1 THEN ((i * 73 + 29) % 255) + 1 ELSE 255

Bytes(n, p) == Word([i \in 1..n |-> PatternByte(i, p)])

\* The key of the first reference vector (doc test of encrypt) and the key
\* of the second (doc test of decrypt_default).
PaperKey ==
  <<43, 214, 69, 159, 130, 197, 179, 0, 149, 44, 73, 16, 72, 129, 255, 72>>
DocKey == <<0, 1, 2, 3, 4, 5, 6, 7, 8, 9, 10, 11, 12, 13, 14, 15>>

ShortKeys == {Bytes(n, p) : n \in 0..MaxKeyLen, p \in 1..2}
LongKeys == {Bytes(MAX_KEY_SIZE, 1), Bytes(MAX_KEY_SIZE + 1, 1)}
\* With them, 255 bytes of 0xFF: many words, the last one a byte short.
Keys ==
  ShortKeys \cup LongKeys
    \cup {PaperKey, DocKey, Bytes(MAX_KEY_SIZE - 1, 2)}

\* The <<key, rounds>> pairs at the limits: the longest key accepted and the
\* first refused, with one round, the largest round count accepted and the
\* first refused; and a short key with the first round count refused.
EdgeKeyRounds ==
  (LongKeys \X {1, MAX_ROUNDS, MAX_ROUNDS + 1})
    \cup ({Bytes(1, 1)} \X {MAX_ROUNDS + 1})

\* The other <<key, rounds>> pairs: every short key with every small round
\* count, and the reference keys with 12 rounds.
PlainKeyRounds ==
  (ShortKeys \X (0..MaxRounds)) \cup ({PaperKey, DocKey} \X {DefaultRounds})

KeyRounds == PlainKeyRounds \cup EdgeKeyRounds

\* The plaintext and the ciphertext of the two reference vectors.
PaperPlain == <<234, 2, 71, 20, 173, 92, 77, 132>>
PaperCipher == <<17, 228, 59, 134, 210, 49, 234, 100>>
DocPlain == <<150, 149, 13, 218, 101, 74, 61, 98>>
DocCipher == <<0, 17, 34, 51, 68, 85, 102, 119>>

\* Buffers for words of u bytes: whole blocks, and whole blocks followed by
\* one byte or by one word.
BufferLens(u) == {k * 2 * u + d : k \in 0..MaxBlocks, d \in {0, 1, u}}
Buffers(u) ==
  {Bytes(n, 1) : n \in BufferLens(u)}
    \cup {PaperPlain, PaperCipher, DocPlain, DocCipher}

\* The buffers the one-shot functions are given at the limits: one stray
\* byte, one block.
EdgeBuffers(u) == {Bytes(1, 1), Bytes(2 * u, 1)}

\* The <<<<key, rounds>>, buffer>> inputs of the one-shot functions.
OneShotInputs(u) ==
  (PlainKeyRounds \X Buffers(u)) \cup (EdgeKeyRounds \X EdgeBuffers(u))

\* Words of u bytes: zero, all bits set, and the two magic constants.
Ones(u) == Word([d \in 1..Digits(u) |-> Base - 1])
SampleWords(u) == {zero(u), Ones(u), P(u)}

RECURSIVE SeqsOf(_, _)
SeqsOf(S, n) ==
  IF n = 0 THEN {<<>>}
  ELSE {Append(q, x) : q \in SeqsOf(S, n - 1), x \in S}

\* Subkey slices: every sequence of 0..MaxSubkeys sample words, and the
\* arrays key expansion makes of the reference keys.
SubkeySlices(u) ==
  UNION {SeqsOf(SampleWords(u), n) : n \in 0..MaxSubkeys}
    \cup {expand_key(key, DefaultRounds, u).val : key \in {PaperKey, DocKey}}

Blocks(u) == {<<zero(u), Ones(u)>>, <<P(u), Q(u)>>, <<Ones(u), P(u)>>}

-----------------------------------------------------------------------------
(* State machine                                                           *)

NoContext == [live |-> FALSE, expanded_key |-> <<>>, rounds |-> 0]
NotMade == [key |-> <<>>, rounds |-> 0, expanded_key |-> <<>>]

Call(op, key, rounds, input, subkeys, block, out, key_mem) ==
  [op |-> op, key |-> key, rounds |-> rounds, input |-> input,
   subkeys |-> subkeys, block |-> block, out |-> out, key_mem |-> key_mem]

NoCall == Call("none", <<>>, 0, <<>>, <<>>, <<>>, Ok(<<>>), <<>>)

Init ==
  /\ size_of_W \in WordSizes
  /\ ctx = NoContext
  /\ made = NotMade
  /\ call = NoCall

\* No call is pending.  Calls are made one after the other (the library is
\* synchronous): Next and FreeNext let a call be made only when Idle, and
\* Return takes the result of the call made.
Idle == call.op = "none"

Return ==
  /\ ~Idle
  /\ call' = NoCall
  /\ UNCHANGED <<size_of_W, ctx, made>>

\* let ctx = Context::new(key, rounds)?: on Ok the caller holds the context.
DoContextNew(key, rounds) ==
  LET new == Context_new(key, rounds, size_of_W)
  IN  /\ ~ctx.live
      /\ call' = Call("Context::new", key, rounds, <<>>, <<>>, <<>>,
                      IF new.out.tag = "Ok" THEN Ok(<<>>) ELSE new.out,
                      new.key)
      /\ IF new.out.tag = "Ok"
           THEN /\ ctx' = [live |-> TRUE,
                           expanded_key |-> new.out.val.expanded_key,
                           rounds |-> new.out.val.rounds]
                /\ made' = [key |-> key, rounds |-> rounds,
                            expanded_key |-> new.out.val.expanded_key]
           ELSE UNCHANGED <<ctx, made>>
      /\ UNCHANGED size_of_W

\* ctx.encrypt(plaintext): &self, the context is read only.
DoContextEncrypt(plaintext) ==
  /\ ctx.live
  /\ call' = Call("Context::encrypt", <<>>, 0, plaintext, <<>>, <<>>,
                  Context_encrypt(Context(ctx.expanded_key, ctx.rounds),
                                  plaintext, size_of_W),
                  <<>>)
  /\ UNCHANGED <<size_of_W, ctx, made>>

\* ctx.decrypt(ciphertext).
DoContextDecrypt(ciphertext) ==
  /\ ctx.live
  /\ call' = Call("Context::decrypt", <<>>, 0, ciphertext, <<>>, <<>>,
                  Context_decrypt(Context(ctx.expanded_key, ctx.rounds),
                                  ciphertext, size_of_W),
                  <<>>)
  /\ UNCHANGED <<size_of_W, ctx, made>>

\* drop(ctx): SecretVec zeroizes the expanded key and frees it.
DoDrop ==
  /\ ctx.live
  /\ ctx' = NoContext
  /\ made' = NotMade
  /\ call' = Call("drop", <<>>, 0, <<>>, <<>>, <<>>, Ok(<<>>), <<>>)
  /\ UNCHANGED size_of_W

\* One context: made, used any number of times, dropped.
Next ==
  \/ Idle /\ \E kr \in KeyRounds : DoContextNew(kr[1], kr[2])
  \/ Idle /\ \E plaintext \in Buffers(size_of_W) : DoContextEncrypt(plaintext)
  \/ Idle /\ \E ciphertext \in Buffers(size_of_W) :
               DoContextDecrypt(ciphertext)
  \/ Idle /\ DoDrop
  \/ Return

Spec == Init /\ [][Next]_vars

\* let _ = Context::new(key, rounds): the context, if one is made, is dropped
\* at once.
DoContextNewOnce(key, rounds) ==
  LET new == Context_new(key, rounds, size_of_W)
  IN  /\ call' = Call("Context::new", key, rounds, <<>>, <<>>, <<>>,
                      IF new.out.tag = "Ok" THEN Ok(<<>>) ELSE new.out,
                      new.key)
      /\ UNCHANGED <<size_of_W, ctx, made>>

\* encrypt::<W>(key, plaintext, rounds).
DoEncrypt(key, plaintext, rounds) ==
  /\ call' = Call("encrypt", key, rounds, plaintext, <<>>, <<>>,
                  encrypt(key, plaintext, rounds, size_of_W), <<>>)
  /\ UNCHANGED <<size_of_W, ctx, made>>

\* decrypt::<W>(key, ciphertext, rounds).
DoDecrypt(key, ciphertext, rounds) ==
  /\ call' = Call("decrypt", key, rounds, ciphertext, <<>>, <<>>,
                  decrypt(key, ciphertext, rounds, size_of_W), <<>>)
  /\ UNCHANGED <<size_of_W, ctx, made>>

\* encrypt_default(key, plaintext): W is u32 whatever size_of_W is.
DoEncryptDefault(key, plaintext) ==
  /\ call' = Call("encrypt_default", key, DefaultRounds, plaintext, <<>>,
                  <<>>, encrypt_default(key, plaintext), <<>>)
  /\ UNCHANGED <<size_of_W, ctx, made>>

\* decrypt_default(key, ciphertext).
DoDecryptDefault(key, ciphertext) ==
  /\ call' = Call("decrypt_default", key, DefaultRounds, ciphertext, <<>>,
                  <<>>, decrypt_default(key, ciphertext), <<>>)
  /\ UNCHANGED <<size_of_W, ctx, made>>

\* cipher::expand_key::<W>(key, rounds).
DoExpandKey(key, rounds) ==
  /\ call' = Call("expand_key", key, rounds, <<>>, <<>>, <<>>,
                  expand_key(key, rounds, size_of_W), <<>>)
  /\ UNCHANGED <<size_of_W, ctx, made>>

\* key_to_words::<W>(key), the first step of expand_key.
DoKeyToWords(key) ==
  /\ call' = Call("key_to_words", key, 0, <<>>, <<>>, <<>>,
                  Ok(key_to_words(key, size_of_W)), <<>>)
  /\ UNCHANGED <<size_of_W, ctx, made>>

\* cipher::encrypt_block::<W>(expanded_key, block).
DoEncryptBlock(expanded_key, block) ==
  /\ call' = Call("encrypt_block", <<>>, 0, <<>>, expanded_key, block,
                  encrypt_block(expanded_key, block), <<>>)
  /\ UNCHANGED <<size_of_W, ctx, made>>

\* cipher::decrypt_block::<W>(expanded_key, block).
DoDecryptBlock(expanded_key, block) ==
  /\ call' = Call("decrypt_block", <<>>, 0, <<>>, expanded_key, block,
                  decrypt_block(expanded_key, block), <<>>)
  /\ UNCHANGED <<size_of_W, ctx, made>>

\* The functions that keep nothing between calls, called in any order.
FreeNext ==
  \/ Idle /\ \E kr \in KeyRounds : DoContextNewOnce(kr[1], kr[2])
  \/ Idle /\ \E in \in OneShotInputs(size_of_W) :
               DoEncrypt(in[1][1], in[2], in[1][2])
  \/ Idle /\ \E in \in OneShotInputs(size_of_W) :
               DoDecrypt(in[1][1], in[2], in[1][2])
  \/ Idle /\ \E key \in {PaperKey, DocKey},
                plaintext \in Buffers(DefaultWordSize) :
               DoEncryptDefault(key, plaintext)
  \/ Idle /\ \E key \in {PaperKey, DocKey},
                ciphertext \in Buffers(DefaultWordSize) :
               DoDecryptDefault(key, ciphertext)
  \/ Idle /\ \E kr \in KeyRounds : DoExpandKey(kr[1], kr[2])
  \/ Idle /\ \E key \in Keys : DoKeyToWords(key)
  \/ Idle /\ \E expanded_key \in SubkeySlices(size_of_W),
                block \in Blocks(size_of_W) :
               DoEncryptBlock(expanded_key, block)
  \/ Idle /\ \E expanded_key \in SubkeySlices(size_of_W),
                block \in Blocks(size_of_W) :
               DoDecryptBlock(expanded_key, block)
  \/ Return

FreeSpec == Init /\ [][FreeNext]_vars

-----------------------------------------------------------------------------
(* Claims                                                                  *)

\* The word whose little-endian encoding is the u bytes of `bytes` after the
\* first `at`: its value is the sum of bytes[at + m] * 256^m, m in 0..u-1
\* (bytes[at + m] is bytes[at + m + 1] here), written in base 65536.
LittleEndianWord(bytes, at, u) ==
  Word([d \in 1..(u \div 2) |->
         bytes[at + 2 * d - 1] + 256 * bytes[at + 2 * d]])

IsByteString(bytes) == \A i \in DOMAIN bytes : bytes[i] \in 0..255

\* C1: for every subkey array of length 2*(r+1), r >= 0, and every block,
\* decrypt_block of the result of encrypt_block returns Ok of the block.
C1_BlockRoundTrip ==
  (/\ call.op = "encrypt_block"
   /\ Len(call.subkeys) >= 2
   /\ Len(call.subkeys) % 2 = 0)
    => /\ call.out.tag = "Ok"
       /\ decrypt_block(call.subkeys, call.out.val) = Ok(call.block)

\* C1's case: a hand-made array with at least one round has encrypted a
\* block into a different block.
C1_Witness ==
  /\ call.op = "encrypt_block"
  /\ Len(call.subkeys) = 4
  /\ call.out.tag = "Ok"
  /\ call.out.val # call.block

\* C2: for rounds and key length up to 256 (the empty key included) and a
\* plaintext of whole blocks (the empty one included), the one-shot decrypt
\* of the one-shot encrypt, same key and rounds, is Ok of the plaintext.
C2_OneShotRoundTrip ==
  (/\ call.op = "encrypt"
   /\ Len(call.key) <= MAX_KEY_SIZE
   /\ call.rounds <= MAX_ROUNDS
   /\ Len(call.input) % (2 * size_of_W) = 0)
    => /\ call.out.tag = "Ok"
       /\ decrypt(call.key, call.out.val, call.rounds, size_of_W)
            = Ok(call.input)

\* C2's case: the empty key has encrypted a plaintext of two blocks or more
\* into something else.
C2_Witness ==
  /\ call.op = "encrypt"
  /\ call.key = <<>>
  /\ call.rounds > 0
  /\ Len(call.input) >= 4 * size_of_W
  /\ call.out.tag = "Ok"
  /\ call.out.val # call.input

\* C3: with 32-bit words and 12 rounds, encrypt maps PaperPlain to
\* PaperCipher under PaperKey, encrypt_default maps DocPlain to DocCipher
\* under DocKey and decrypt_default maps DocCipher back to DocPlain.
C3_ReferenceVectors ==
  /\ (/\ call.op = "encrypt"
      /\ size_of_W = 4
      /\ call.key = PaperKey
      /\ call.rounds = 12
      /\ call.input = PaperPlain) => call.out = Ok(PaperCipher)
  /\ (/\ call.op = "encrypt_default"
      /\ call.key = DocKey
      /\ call.input = DocPlain) => call.out = Ok(DocCipher)
  /\ (/\ call.op = "decrypt_default"
      /\ call.key = DocKey
      /\ call.input = DocCipher) => call.out = Ok(DocPlain)

\* C3's case: decrypt_default has been given the second vector's ciphertext.
C3_Witness ==
  /\ call.op = "decrypt_default"
  /\ call.key = DocKey
  /\ call.input = DocCipher
  /\ call.out.tag = "Ok"

\* C4: Context::encrypt and Context::decrypt return Err(InvalidInputLength)
\* exactly when the buffer length is not a multiple of 2 * size_of_W, and Ok
\* otherwise (the empty buffer included); the error carries no output.
C4_InputLength ==
  call.op \in {"Context::encrypt", "Context::decrypt"}
    => IF Len(call.input) % (2 * size_of_W) # 0
         THEN call.out = Err("InvalidInputLength") /\ call.out.val = <<>>
         ELSE call.out.tag = "Ok"

\* C4's case: a buffer of whole blocks and one word more has been refused.
C4_Witness ==
  /\ call.op = "Context::encrypt"
  /\ Len(call.input) > 2 * size_of_W
  /\ Len(call.input) % (2 * size_of_W) = size_of_W
  /\ call.out.tag = "Err"

KeyedOps == {"expand_key", "Context::new", "encrypt", "decrypt"}

\* C5 as stated: InvalidKeySize whenever the key is longer than 256,
\* InvalidRoundsCount whenever rounds exceeds 256, InvalidInputLength
\* whenever the one-shot buffer is not whole blocks; 256 and 256 accepted.
C5_AsStated ==
  call.op \in KeyedOps
    => /\ Len(call.key) > MAX_KEY_SIZE => call.out = Err("InvalidKeySize")
       /\ call.rounds > MAX_ROUNDS => call.out = Err("InvalidRoundsCount")
       /\ (/\ call.op \in {"encrypt", "decrypt"}
           /\ Len(call.input) % (2 * size_of_W) # 0)
            => call.out = Err("InvalidInputLength")
       /\ (Len(call.key) = MAX_KEY_SIZE /\ call.rounds = MAX_ROUNDS)
            => call.out.err \notin {"InvalidKeySize", "InvalidRoundsCount"}

\* C5 amended: the checks are made in the order key length, rounds, buffer
\* length, and the first that fails decides the error.
C5_FirstFailingCheck ==
  call.op \in KeyedOps
    => /\ Len(call.key) > MAX_KEY_SIZE => call.out = Err("InvalidKeySize")
       /\ (Len(call.key) <= MAX_KEY_SIZE /\ call.rounds > MAX_ROUNDS)
            => call.out = Err("InvalidRoundsCount")
       /\ (/\ call.op \in {"encrypt", "decrypt"}
           /\ Len(call.key) <= MAX_KEY_SIZE
           /\ call.rounds <= MAX_ROUNDS
           /\ Len(call.input) % (2 * size_of_W) # 0)
            => call.out = Err("InvalidInputLength")
       /\ (Len(call.key) = MAX_KEY_SIZE /\ call.rounds = MAX_ROUNDS)
            => call.out.err \notin {"InvalidKeySize", "InvalidRoundsCount"}

\* C5's case: a one-shot call with the key too long, the rounds too many and
\* a stray byte has failed on the key.
C5_Witness ==
  /\ call.op = "encrypt"
  /\ Len(call.key) > MAX_KEY_SIZE
  /\ call.rounds > MAX_ROUNDS
  /\ Len(call.input) % (2 * size_of_W) # 0
  /\ call.out = Err("InvalidKeySize")

\* C6: Context::new leaves every byte of the key buffer it was given zero,
\* when it succeeds and when key expansion fails.
C6_KeyWipedOnEveryPath ==
  call.op = "Context::new"
    => \A i \in DOMAIN call.key_mem : call.key_mem[i] = 0

\* C7: while a context is held, after any calls on it, its subkey array has
\* 2 * (rounds + 1) words and is the array key expansion returned to
\* Context::new, its rounds is the rounds given to Context::new, and the
\* result of a call is what a context fresh from Context::new returns for
\* the same input.
C7_ContextUnchanged ==
  /\ ctx.live
       => /\ Len(ctx.expanded_key) = 2 * (ctx.rounds + 1)
          /\ ctx.expanded_key = made.expanded_key
          /\ ctx.rounds = made.rounds
  /\ (call.op = "Context::new" /\ call.out.tag = "Ok")
       => /\ made.key = call.key
          /\ made.rounds = call.rounds
          /\ Ok(made.expanded_key)
               = expand_key(call.key, call.rounds, size_of_W)
  /\ call.op = "Context::encrypt"
       => call.out = Context_encrypt(
                       Context(made.expanded_key, made.rounds),
                       call.input, size_of_W)
  /\ call.op = "Context::decrypt"
       => call.out = Context_decrypt(
                       Context(made.expanded_key, made.rounds),
                       call.input, size_of_W)

\* C7's case: a context of 256 rounds has just encrypted a buffer.
C7_Witness ==
  /\ ctx.live
  /\ ctx.rounds = MAX_ROUNDS
  /\ call.op = "Context::encrypt"
  /\ call.out.tag = "Ok"
  /\ Len(call.input) > 0

\* C8: the output of Context::encrypt (decrypt) is as long as the input, and
\* its k-th block is the little-endian encoding of encrypt_block
\* (decrypt_block) of the two little-endian words of the k-th input block.
C8_BlockByBlock ==
  (call.op \in {"Context::encrypt", "Context::decrypt"}
     /\ call.out.tag = "Ok")
    => LET u == size_of_W
           n == Len(call.input) \div (2 * u)
           A(k) == LittleEndianWord(call.input, k * 2 * u, u)
           B(k) == LittleEndianWord(call.input, k * 2 * u + u, u)
           r(k) == IF call.op = "Context::encrypt"
                     THEN encrypt_block(ctx.expanded_key, <<A(k), B(k)>>)
                     ELSE decrypt_block(ctx.expanded_key, <<A(k), B(k)>>)
       IN  /\ Len(call.out.val) = Len(call.input)
           /\ IsByteString(call.out.val)
           /\ \A k \in 0..(n - 1) :
                /\ r(k).tag = "Ok"
                /\ LittleEndianWord(call.out.val, k * 2 * u, u) = r(k).val[1]
                /\ LittleEndianWord(call.out.val, k * 2 * u + u, u)
                     = r(k).val[2]

\* C8's case: a buffer of two blocks or more has been encrypted.
C8_Witness ==
  /\ call.op = "Context::encrypt"
  /\ call.out.tag = "Ok"
  /\ Len(call.input) >= 4 * size_of_W
  /\ ctx.rounds > 0

\* C9: every public operation returns a value or one of the five errors; none
\* panics.
C9_NoPanic ==
  /\ call.out.tag \in {"Ok", "Err"}
  /\ call.out.tag = "Err" => call.out.err \in Error

\* C10: for a key K of b <= 256 bytes, key_to_words returns ceil(max(b,1)/u)
\* words, and word k is the sum over m in 0..u-1 of K[k*u+m] * 256^m, with
\* K[i] = 0 for i >= b; the empty key gives one zero word.
C10_KeyPacking ==
  (call.op = "key_to_words" /\ Len(call.key) <= MAX_KEY_SIZE)
    => LET u == size_of_W
           b == Len(call.key)
           words == call.out.val
           c == Len(words)
           padded == call.key \o [i \in 1..(c * u - b) |-> 0]
       IN  /\ c * u >= Max(b, 1)
           /\ (c - 1) * u < Max(b, 1)
           /\ \A k \in 0..(c - 1) :
                words[k + 1] = LittleEndianWord(padded, k * u, u)
           /\ b = 0 => words = <<zero(u)>>

\* C10's case: a key that fills more than one word and leaves the last one
\* partly empty has been packed.
C10_Witness ==
  /\ call.op = "key_to_words"
  /\ Len(call.key) > size_of_W
  /\ Len(call.key) % size_of_W # 0
  /\ Len(call.key) <= MAX_KEY_SIZE

=============================================================================
